---- MODULE Spec2Model ----
(***************************************************************************)
(* The apiFetch middleware of src/editor/api/index.js: it intercepts the   *)
(* post update request of the newsletter editor, saves the explicit post   *)
(* meta, asks the server for the MJML of the content, fixes the widths of  *)
(* the images, converts the MJML to HTML, saves it as post meta and then   *)
(* proceeds with the post update request.                                  *)
(*                                                                         *)
(* JavaScript objects are records whose DOMAIN holds the properties that   *)
(* are set; strings that the code searches or builds are sequences of      *)
(* pieces.                                                                 *)
(***************************************************************************)
EXTENDS Integers, Sequences, FiniteSets, TLC

VARIABLES
    mjmlHandlingPostTypes, \* window.newspack_email_editor_data.mjml_handling_post_types
    currentPostType,       \* select( 'core/editor' ).getCurrentPostType()
    editedPostMeta,        \* select( 'core/editor' ).getEditedPostAttribute( 'meta' )
    received,              \* the options each apiFetch call of the editor was made with
    status,                \* the promise of each such call
    stack,                 \* the middleware invocations of each call, innermost last
    server,                \* what the REST server has stored for the post
    netLog,                \* per call: the options that reached next(), in order
    log,                   \* per call: its external events, in order
    forwarded              \* the calls whose original request was passed to next(), in order

vars == << mjmlHandlingPostTypes, currentPostType, editedPostMeta, received,
           status, stack, server, netLog, log, forwarded >>

----------------------------------------------------------------------------
(* Bounds *)

MaxImages == 2   \* mj-image elements in one MJML document
MaxDepth == 3    \* middleware invocations nested in one call

Reqs == {1, 2}   \* the apiFetch calls of the editor

----------------------------------------------------------------------------
(* Objects and strings *)

Has(obj, prop) == prop \in DOMAIN obj

Restrict(obj, props) == [p \in props |-> obj[p]]

\* s.indexOf( sub ) !== -1
Contains(s, sub) ==
    \E k \in 0..(Len(s) - Len(sub)) : SubSeq(s, k + 1, k + Len(sub)) = sub

\* lodash includes( list, value )
includes(list, value) == \E k \in 1..Len(list) : list[k] = value

\* lodash pick( object, keys ) and omit( object, keys )
pick(object, keys) == [k \in (DOMAIN object) \cap keys |-> object[k]]

omit(object, keys) == [k \in (DOMAIN object) \ keys |-> object[k]]

POST_META_WHITELIST ==
    { "is_public", "preview_text", "diable_ads", "font_body", "font_header",
      "background_color", "custom_css", "newsletter_sent" }

\* window.newspack_email_editor_data.email_html_meta
emailHTMLMetaName == "newspack_email_html"

----------------------------------------------------------------------------
(* The values the model draws its inputs from *)

\* Post types, as strings of pieces: two that MJML may handle and one it never does.
NewsletterType == << "n", "l" >>
AdType == << "a", "d" >>
PageType == << "p", "g" >>

\* The post type open in the editor.
PostTypeChoices == { NewsletterType, PageType }

HandledListChoices == { << >>, << NewsletterType >>, << NewsletterType, AdType >> }

\* Request paths: the REST routes of a newsletter and of an ad, and a route
\* whose name only starts with the letters of the newsletter type.
PathChoices ==
    { << "/wp/v2/" >> \o NewsletterType \o << "/", "7" >>,
      << "/wp/v2/" >> \o NewsletterType \o << "x", "/", "7" >>,
      << "/wp/v2/" >> \o AdType \o << "/", "7" >> }

MethodChoices == { "GET", "POST", "PUT" }

\* Meta objects of a request: no key, a key that is not allow-listed, the
\* allow-listed key with the key of the email HTML, and all three; a value is
\* a string of pieces.
SampleMetaKeys == { "is_public", emailHTMLMetaName, "other_key" }

RequestMetaChoices ==
    UNION { [keys -> { << "r" >>}] :
              keys \in { {}, { "other_key" }, { "is_public", emailHTMLMetaName },
                         SampleMetaKeys } }

\* The meta edited in the editor: allow-listed keys and one that is not.
EditedMetaChoices == { [k \in { "is_public", "custom_css", "other_key" } |-> << "e" >>] }

\* data of a request: any subset of the properties content, id, title and meta;
\* an empty content and the id 0 are the falsy values the filter meets.
DataChoices ==
    { Restrict(d, props) :
        d \in [ content : { "", "c1" }, id : { 0, 7 }, title : { "t" },
                meta : RequestMetaChoices ],
        props \in SUBSET { "content", "id", "title", "meta" } }

\* options of an apiFetch call: method, path and data, each of which may be missing.
OptionsChoices ==
    { Restrict(o, props) :
        o \in [ method : MethodChoices, path : PathChoices, data : DataChoices ],
        props \in { { "method", "path", "data" }, { "path", "data" },
                    { "method", "data" }, { "method", "path" } } }

\* mj-image elements: src is set, width is missing, empty or explicit.
ImageChoices ==
    { [ src |-> "a" ], [ src |-> "b", width |-> "" ], [ src |-> "a", width |-> "50" ] }

ImageListChoices == UNION { [1..n -> ImageChoices] : n \in 0..MaxImages }

\* The width of the image behind a URL.
NaturalWidth(src) == IF src = "a" THEN 300 ELSE 600

----------------------------------------------------------------------------
(* The pure parts of the middleware *)

EmptyObject == [k \in {} |-> << >>]

\* const { method, path, data = {} } = options
DataOf(options) == IF Has(options, "data") THEN options.data ELSE EmptyObject

IsUpdateRequest(options) == Has(options, "method") /\ options.method \in { "POST", "PUT" }

HasContentAndId(data) ==
    /\ Has(data, "content") /\ data.content # ""
    /\ Has(data, "id") /\ data.id # 0

\* What the filters at the head of the middleware decide for a request:
\* "next" (pass it on untouched), "handle" (produce the email HTML first) or
\* "throw" (path.indexOf on a request that has no path).
Verdict(options, handledTypes, postType) ==
    IF ~IsUpdateRequest(options) THEN "next"
    ELSE IF ~HasContentAndId(DataOf(options)) THEN "next"
    ELSE IF handledTypes # << >> /\ ~Has(options, "path") THEN "throw"
    ELSE IF ~\E k \in 1..Len(handledTypes) : Contains(options.path, handledTypes[k])
        THEN "next"
    ELSE IF ~includes(handledTypes, postType) THEN "next"
    ELSE "handle"

\* A middleware that strips the meta without looking whether there is any.
StripMetaAlways(options) ==
    [options EXCEPT !.data =
        [f \in (DOMAIN options.data) \cup { "meta" } |->
            IF f # "meta" THEN options.data[f]
            ELSE IF Has(options.data, "meta")
                THEN omit(options.data.meta, POST_META_WHITELIST \cup { emailHTMLMetaName })
            ELSE EmptyObject]]

\* Strip the meta which will be updated explicitly from the post update payload.
StripMeta(options) ==
    IF Has(options.data, "meta")
    THEN [options EXCEPT
            !.data.meta = omit(@, POST_META_WHITELIST \cup { emailHTMLMetaName })]
    ELSE options

PostPath(postType, id) == << "/wp/v2/" >> \o postType \o << "/", ToString(id) >>

PostMjmlPath == << "/newspack-newsletters/v1/post-mjml" >>

\* A middleware that saves the meta along with the data of the request.
MetaSaveWithData(options, postMeta, postType) ==
    [ data |-> [f \in (DOMAIN options.data) \cup { "meta" } |->
                  IF f = "meta" THEN pick(postMeta, POST_META_WHITELIST)
                  ELSE options.data[f]],
      method |-> "POST",
      path |-> PostPath(postType, options.data.id) ]

\* A middleware that saves the meta of the request instead of the edited meta.
MetaSaveOfRequest(options, postMeta, postType) ==
    [ data |-> [ meta |-> IF Has(options.data, "meta")
                          THEN pick(options.data.meta, POST_META_WHITELIST)
                          ELSE EmptyObject ],
      method |-> "POST",
      path |-> PostPath(postType, options.data.id) ]

\* The three requests the middleware makes itself.
MetaSaveOptions(options, postMeta, postType) ==
    [ data |-> [ meta |-> pick(postMeta, POST_META_WHITELIST) ],
      method |-> "POST",
      path |-> PostPath(postType, options.data.id) ]

MjmlOptions(options) ==
    [ path |-> PostMjmlPath,
      method |-> "POST",
      data |-> IF Has(options.data, "title")
               THEN [ post_id |-> options.data.id, title |-> options.data.title,
                      content |-> options.data.content ]
               ELSE [ post_id |-> options.data.id, content |-> options.data.content ] ]

HtmlSaveOptions(options, html, postType) ==
    [ data |-> [ meta |-> [k \in { emailHTMLMetaName } |-> html] ],
      method |-> "POST",
      path |-> PostPath(postType, options.data.id) ]

\* ! element.getAttribute( 'width' )
LacksWidth(element) == ~Has(element, "width") \/ element.width = ""

\* A fixImagesWidth that loads every image, whether it has a width or not.
ImagesToLoadAlways(images, i) == { i }

\* A fixImagesWidth that starts the loads of all the images at once.
ImagesToLoadAtOnce(images, i) == { k \in i..Len(images) : LacksWidth(images[k]) }

\* The images whose load fixImagesWidth starts when its loop stands at image i.
ImagesToLoad(images, i) == IF LacksWidth(images[i]) THEN { i } ELSE {}

\* element.setAttribute( 'width', size.width )
SetWidth(element, width) == [ src |-> element.src, width |-> ToString(width) ]

\* mjml2html: the email HTML of an MJML document, as a string of pieces.
RECURSIVE ImagesHtml(_)
ImagesHtml(images) ==
    IF images = << >> THEN << >>
    ELSE << "<img", Head(images).src,
            IF Has(Head(images), "width") THEN Head(images).width ELSE "100%", ">" >>
         \o ImagesHtml(Tail(images))

mjml2html(mjml) ==
    << "<title>", mjml.title, "<body>", mjml.content >> \o ImagesHtml(mjml.images)

NoMjml == [ title |-> "", content |-> "", images |-> << >> ]

----------------------------------------------------------------------------
(* The state machine *)

\* One invocation of the middleware: its options, where it stands, the MJML
\* the server answered with, and the locals of fixImagesWidth (the template
\* holding the document, the loop index, the image loads under way); resp is
\* the response of the request it passed to next().
NewFrame(options) ==
    [ opts |-> options, pc |-> "start", mjml |-> NoMjml, template |-> NoMjml,
      i |-> 0, loads |-> {}, resp |-> NoMjml ]

Depth(r) == Len(stack[r])

Top(r) == stack[r][Depth(r)]

AtPc(r, pc) == status[r] = "pending" /\ Depth(r) > 0 /\ Top(r).pc = pc

WithTop(frames, frame) == [frames EXCEPT ![Len(frames)] = frame]

IsMjmlRequest(options) == Has(options, "path") /\ options.path = PostMjmlPath

\* The MJML document the server makes of a post: its title, its content and
\* its images.
MjmlOf(data, images) ==
    [ title |-> IF Has(data, "title") THEN data.title ELSE "",
      content |-> data.content,
      images |-> images ]

\* What a request that reaches next() is, as the server sees it.
Kind(options, depth) ==
    IF depth = 1 THEN "request"
    ELSE IF IsMjmlRequest(options) THEN "post-mjml"
    ELSE IF Has(DataOf(options), "meta") /\ emailHTMLMetaName \in DOMAIN options.data.meta
        THEN "save-html"
    ELSE "save-meta"

TopKind(r) == Kind(Top(r).opts, Depth(r))

Logged(r, events) == log' = [log EXCEPT ![r] = @ \o events]

EnvUnchanged == UNCHANGED << mjmlHandlingPostTypes, currentPostType, editedPostMeta, received >>

\* The REST server: an update request sets the content and merges the meta of
\* the post its path names.
NoPost == [ meta |-> EmptyObject, content |-> "" ]

Stored(store, path) == IF path \in DOMAIN store THEN store[path] ELSE NoPost

Merge(old, new) ==
    [k \in (DOMAIN old) \cup (DOMAIN new) |-> IF k \in DOMAIN new THEN new[k] ELSE old[k]]

ServerApply(store, options) ==
    IF /\ IsUpdateRequest(options) /\ Has(options, "path") /\ Has(options, "data")
       /\ ~IsMjmlRequest(options)
    THEN LET old == Stored(store, options.path)
             new == [ meta |-> IF Has(options.data, "meta")
                               THEN Merge(old.meta, options.data.meta) ELSE old.meta,
                      content |-> IF Has(options.data, "content")
                                  THEN options.data.content ELSE old.content ]
         IN  [p \in (DOMAIN store) \cup { options.path } |->
                 IF p = options.path THEN new ELSE store[p]]
    ELSE store

\* A middleware that proceeds with the post update in a finally block.
RejectAfterNext(r, what) ==
    /\ status' = [status EXCEPT ![r] = "rejected"]
    /\ stack' = [stack EXCEPT ![r] = << >>]
    /\ Logged(r, << << "fail", what >> >>)
    /\ forwarded' = Append(forwarded, r)
    /\ UNCHANGED << server, netLog >>

\* The call returns a rejected promise: no invocation of it runs any further.
Reject(r, what) ==
    /\ status' = [status EXCEPT ![r] = "rejected"]
    /\ stack' = [stack EXCEPT ![r] = << >>]
    /\ Logged(r, << << "fail", what >> >>)
    /\ UNCHANGED << server, netLog, forwarded >>

\* next( options ), called by the invocation on top of frames.
CallNext(r, frames, events) ==
    LET caller == frames[Len(frames)]
    IN  /\ stack' = [stack EXCEPT ![r] = WithTop(frames, [caller EXCEPT !.pc = "sent"])]
        /\ netLog' = [netLog EXCEPT ![r] = Append(@, caller.opts)]
        /\ forwarded' = IF Len(frames) = 1 THEN Append(forwarded, r) ELSE forwarded
        /\ Logged(r, events \o << << "send", Kind(caller.opts, Len(frames)) >> >>)
        /\ UNCHANGED << status, server >>

\* apiFetch( options ), called by the invocation on top of frames: the
\* request enters the middleware again.
CallApiFetch(r, frames, options, events) ==
    /\ Len(frames) < MaxDepth
    /\ stack' = [stack EXCEPT ![r] = Append(frames, NewFrame(options))]
    /\ Logged(r, events)
    /\ UNCHANGED << status, server, netLog, forwarded >>

\* The editor calls apiFetch.
Intercept(r) ==
    /\ status[r] = "idle"
    /\ status' = [status EXCEPT ![r] = "pending"]
    /\ stack' = [stack EXCEPT ![r] = << NewFrame(received[r]) >>]
    /\ UNCHANGED << server, netLog, log, forwarded >>
    /\ EnvUnchanged

TopVerdict(r) == Verdict(Top(r).opts, mjmlHandlingPostTypes, currentPostType)

\* A request the filters let through goes to next() as it is.
PassThrough(r) ==
    /\ AtPc(r, "start")
    /\ TopVerdict(r) = "next"
    /\ CallNext(r, stack[r], << >>)
    /\ EnvUnchanged

FilterThrows(r) ==
    /\ AtPc(r, "start")
    /\ TopVerdict(r) = "throw"
    /\ Reject(r, "filter")
    /\ EnvUnchanged

\* A post update of a handled type: strip the meta and save the post meta.
Handle(r) ==
    /\ AtPc(r, "start")
    /\ TopVerdict(r) = "handle"
    /\ LET stripped == StripMeta(Top(r).opts)
       IN  CallApiFetch(r,
               WithTop(stack[r], [Top(r) EXCEPT !.opts = stripped, !.pc = "awaitMeta"]),
               MetaSaveOptions(stripped, editedPostMeta, currentPostType), << >>)
    /\ EnvUnchanged

\* The server handles a request that reached next(); to a conversion request
\* it answers with an MJML document of the content.
ServerProcess(r) ==
    /\ AtPc(r, "sent")
    /\ LET f == Top(r)
       IN  \E images \in IF IsMjmlRequest(f.opts) THEN ImageListChoices ELSE { << >> } :
             /\ stack' = [stack EXCEPT ![r] = WithTop(stack[r],
                   [f EXCEPT !.pc = "processed",
                             !.resp = IF IsMjmlRequest(f.opts)
                                      THEN MjmlOf(f.opts.data, images) ELSE NoMjml])]
             /\ server' = ServerApply(server, f.opts)
    /\ UNCHANGED << status, netLog, log, forwarded >>
    /\ EnvUnchanged

\* The response of an awaited apiFetch call arrives at the invocation that
\* awaits it at pc.
Awaited(r, pc) ==
    /\ AtPc(r, "processed")
    /\ Depth(r) > 1
    /\ stack[r][Depth(r) - 1].pc = pc

Caller(r) == stack[r][Depth(r) - 1]

Callers(r) == SubSeq(stack[r], 1, Depth(r) - 1)

Done(r) == << << "done", TopKind(r) >> >>

\* A middleware that proceeds with the post update as soon as the post meta
\* is saved.
MetaSavedThenNext(r) ==
    /\ Awaited(r, "awaitMeta")
    /\ CallNext(r, Callers(r), Done(r))
    /\ EnvUnchanged

\* The post meta is saved. Then, send the content over to the server to
\* convert it into MJML.
MetaSaved(r) ==
    /\ Awaited(r, "awaitMeta")
    /\ CallApiFetch(r, WithTop(Callers(r), [Caller(r) EXCEPT !.pc = "awaitMjml"]),
                    MjmlOptions(Caller(r).opts), Done(r))
    /\ EnvUnchanged

\* The MJML arrives and fixImagesWidth puts it into a template.
MjmlReceived(r) ==
    /\ Awaited(r, "awaitMjml")
    /\ stack' = [stack EXCEPT ![r] = WithTop(Callers(r),
          [Caller(r) EXCEPT !.pc = "fixImages", !.mjml = Top(r).resp,
                            !.template = Top(r).resp, !.i = 1])]
    /\ Logged(r, Done(r))
    /\ UNCHANGED << status, server, netLog, forwarded >>
    /\ EnvUnchanged

\* The load events of a set of images, in document order.
LoadEvents(n, indexes) ==
    LET chosen == SelectSeq([k \in 1..n |-> k], LAMBDA k : k \in indexes)
    IN  [k \in 1..Len(chosen) |-> << "load", ToString(chosen[k]) >>]

\* One turn of the loop of fixImagesWidth: an image that has a width is
\* skipped, the load of one that lacks it is started and awaited.
FixImagesStep(r) ==
    /\ AtPc(r, "fixImages")
    /\ Top(r).i <= Len(Top(r).template.images)
    /\ LET f == Top(r)
           started == ImagesToLoad(f.template.images, f.i) \ f.loads
           loads == f.loads \cup started
       IN  /\ stack' = [stack EXCEPT ![r] =
                 WithTop(stack[r], IF f.i \in loads
                                   THEN [f EXCEPT !.loads = loads, !.pc = "awaitImage"]
                                   ELSE [f EXCEPT !.loads = loads, !.i = f.i + 1])]
           /\ Logged(r, LoadEvents(Len(f.template.images), started))
    /\ UNCHANGED << status, server, netLog, forwarded >>
    /\ EnvUnchanged

\* img.onload: the width of the loaded image becomes the width attribute.
ImageLoaded(r, k) ==
    /\ AtPc(r, "awaitImage")
    /\ k \in Top(r).loads
    /\ LET f == Top(r)
           element == SetWidth(f.template.images[k],
                               NaturalWidth(f.template.images[k].src))
           g == [f EXCEPT !.template.images[k] = element, !.loads = @ \ { k }]
       IN  stack' = [stack EXCEPT ![r] =
               WithTop(stack[r], IF k = f.i
                                 THEN [g EXCEPT !.i = f.i + 1, !.pc = "fixImages"]
                                 ELSE g)]
    /\ Logged(r, << << "loaded", ToString(k) >> >>)
    /\ UNCHANGED << status, server, netLog, forwarded >>
    /\ EnvUnchanged

\* img.onerror
ImageError(r, k) ==
    /\ AtPc(r, "awaitImage")
    /\ k \in Top(r).loads
    /\ Reject(r, "image")
    /\ EnvUnchanged

\* A middleware that converts the MJML and proceeds without saving the HTML.
SaveHtmlLeftOut(r) ==
    /\ AtPc(r, "fixImages")
    /\ Top(r).i > Len(Top(r).template.images)
    /\ CallNext(r, stack[r], << << "convert", "mjml2html" >> >>)
    /\ EnvUnchanged

\* Once the MJML is fixed, convert it to HTML and save it as post meta.
SaveHtml(r) ==
    /\ AtPc(r, "fixImages")
    /\ Top(r).i > Len(Top(r).template.images)
    /\ CallApiFetch(r, WithTop(stack[r], [Top(r) EXCEPT !.pc = "awaitHtml"]),
                    HtmlSaveOptions(Top(r).opts, mjml2html(Top(r).template),
                                    currentPostType),
                    << << "convert", "mjml2html" >> >>)
    /\ EnvUnchanged

\* The HTML is saved: proceed with the post update request.
HtmlSaved(r) ==
    /\ Awaited(r, "awaitHtml")
    /\ CallNext(r, Callers(r), Done(r))
    /\ EnvUnchanged

\* The response of the request of the editor arrives: its call resolves.
Respond(r) ==
    /\ AtPc(r, "processed")
    /\ Depth(r) = 1
    /\ status' = [status EXCEPT ![r] = "resolved"]
    /\ stack' = [stack EXCEPT ![r] = WithTop(stack[r], [Top(r) EXCEPT !.pc = "done"])]
    /\ Logged(r, Done(r))
    /\ UNCHANGED << server, netLog, forwarded >>
    /\ EnvUnchanged

\* A request that reached next() fails, before or after the server handled it.
NetFail(r) ==
    /\ AtPc(r, "sent") \/ AtPc(r, "processed")
    /\ Reject(r, TopKind(r))
    /\ EnvUnchanged

----------------------------------------------------------------------------
(* Specifications *)

Quiet ==
    /\ server = EmptyObject
    /\ stack = [r \in Reqs |-> << >>]
    /\ netLog = [r \in Reqs |-> << >>]
    /\ log = [r \in Reqs |-> << >>]
    /\ forwarded = << >>

\* One call of the editor, with any options, in any configuration.
Init ==
    /\ mjmlHandlingPostTypes \in HandledListChoices
    /\ currentPostType \in PostTypeChoices
    /\ editedPostMeta \in EditedMetaChoices
    /\ \E options \in OptionsChoices : received = [r \in Reqs |-> options]
    /\ status = [r \in Reqs |-> IF r = 1 THEN "idle" ELSE "none"]
    /\ Quiet

Next ==
    \E r \in Reqs :
        \/ Intercept(r)
        \/ PassThrough(r)
        \/ FilterThrows(r)
        \/ Handle(r)
        \/ ServerProcess(r)
        \/ MetaSaved(r)
        \/ MjmlReceived(r)
        \/ FixImagesStep(r)
        \/ \E k \in 1..MaxImages : ImageLoaded(r, k)
        \/ \E k \in 1..MaxImages : ImageError(r, k)
        \/ SaveHtml(r)
        \/ HtmlSaved(r)
        \/ Respond(r)
        \/ NetFail(r)

Spec == Init /\ [][Next]_vars

\* Every step that can be taken is taken in the end: a request under way is
\* answered or fails, and the middleware goes on after each await.
FairInit ==
    /\ mjmlHandlingPostTypes = << NewsletterType >>
    /\ currentPostType = NewsletterType
    /\ Init

FairSpec == FairInit /\ [][Next]_vars /\ WF_vars(Next)

\* Two post updates of the same post, with different contents, under way at
\* once; the second may come without a path.
ConcurrentUpdate(content) ==
    [ method |-> "POST",
      path |-> PostPath(NewsletterType, 7),
      data |-> [ id |-> 7, title |-> "t", content |-> content,
                 meta |-> [k \in { "is_public", "other_key" } |-> << "r" >>] ] ]

ConcInit ==
    /\ mjmlHandlingPostTypes = << NewsletterType >>
    /\ currentPostType = NewsletterType
    /\ editedPostMeta = [k \in { "is_public" } |-> << "e" >>]
    /\ \E second \in { ConcurrentUpdate("c2"),
                       Restrict(ConcurrentUpdate("c2"), { "method", "data" }) } :
          received = [r \in Reqs |-> IF r = 1 THEN ConcurrentUpdate("c1") ELSE second]
    /\ status = [r \in Reqs |-> "idle"]
    /\ Quiet

ConcSpec == ConcInit /\ [][Next]_vars

----------------------------------------------------------------------------
(* What the claims speak of *)

Calls == { r \in Reqs : status[r] # "none" }

Count(seq, x) == Cardinality({ k \in 1..Len(seq) : seq[k] = x })

\* A request that passes all the filters: an update, with content and id, whose
\* path contains a handled post type, while the editor is on a handled post type.
Qualifying(options) ==
    /\ Has(options, "method") /\ options.method \in { "POST", "PUT" }
    /\ Has(options, "data")
    /\ Has(options.data, "content") /\ options.data.content # ""
    /\ Has(options.data, "id") /\ options.data.id # 0
    /\ Has(options, "path")
    /\ \E k \in 1..Len(mjmlHandlingPostTypes) :
          Contains(options.path, mjmlHandlingPostTypes[k])
    /\ \E k \in 1..Len(mjmlHandlingPostTypes) : mjmlHandlingPostTypes[k] = currentPostType

Failed(r) == \E k \in 1..Len(log[r]) : log[r][k][1] = "fail"

\* The place of an event in the order of the steps; the image loads share one.
Rank(event) ==
    CASE event = << "send", "save-meta" >> -> 1
      [] event = << "done", "save-meta" >> -> 2
      [] event = << "send", "post-mjml" >> -> 3
      [] event = << "done", "post-mjml" >> -> 4
      [] event[1] \in { "load", "loaded" } -> 5
      [] event = << "convert", "mjml2html" >> -> 6
      [] event = << "send", "save-html" >> -> 7
      [] event = << "done", "save-html" >> -> 8
      [] event = << "send", "request" >> -> 9
      [] event = << "done", "request" >> -> 10
      [] OTHER -> 0

\* The options a forwarded call passed to next(): nothing is sent after them.
ForwardedOptions(r) == netLog[r][Len(netLog[r])]

LastEvent(r) == log[r][Len(log[r])]

\* The post the middleware saves the meta of.
SavedPost(r) == Stored(server, PostPath(currentPostType, received[r].data.id))

\* C1: in a qualifying request whose external calls all succeed the steps
\* come in this order, each after the one before it is complete and none left
\* out: the save of the post meta, the conversion request, the image loads,
\* the conversion to HTML, the save of the HTML, and last, once, next();
\* the HTML is stored by the time the request is forwarded.
C1_StepsInOrder ==
    \A r \in Calls :
        Qualifying(received[r]) /\ ~Failed(r) =>
            LET rank == [k \in 1..Len(log[r]) |-> Rank(log[r][k])]
            IN  /\ \A p, q \in 1..Len(log[r]) :
                      p < q => rank[p] < rank[q] \/ (rank[p] = 5 /\ rank[q] = 5)
                /\ \A q \in 1..Len(log[r]) :
                      \A n \in 1..(rank[q] - 1) :
                          n # 5 => \E p \in 1..(q - 1) : rank[p] = n
                /\ \A p \in 1..(Len(log[r]) - 1) :
                      log[r][p][1] = "load" => log[r][p + 1] = << "loaded", log[r][p][2] >>
                /\ Count(forwarded, r) <= 1
                /\ Count(forwarded, r) = 1 =>
                      /\ emailHTMLMetaName \in DOMAIN SavedPost(r).meta
                      /\ ForwardedOptions(r) = stack[r][1].opts
                /\ status[r] = "resolved" =>
                      /\ LastEvent(r) = << "done", "request" >>
                      /\ Count(forwarded, r) = 1

C1_Witness ==
    /\ status[1] = "resolved"
    /\ Qualifying(received[1])
    /\ \E k \in 1..Len(log[1]) : log[1][k] = << "loaded", "2" >>

\* One of the steps of the chain failed: a request the middleware made itself
\* or an image load.
StepFailed(r) ==
    /\ status[r] = "rejected"
    /\ LastEvent(r)[1] = "fail"
    /\ LastEvent(r)[2] \in { "save-meta", "post-mjml", "image", "save-html" }

\* The meta the server holds includes every entry of meta.
Holds(stored, meta) == \A k \in DOMAIN meta : k \in DOMAIN stored /\ stored[k] = meta[k]

AbortedCleanly(r) ==
    /\ Count(forwarded, r) = 0
    /\ \A k \in 1..Len(log[r]) : log[r][k] # << "send", "request" >>
    /\ \A p, q \in 1..Len(log[r]) :
          p < q /\ log[r][p][1] \in { "send", "load" } => log[r][p] # log[r][q]
    /\ \A k \in 1..(Len(log[r]) - 1) : log[r][k][1] # "fail"
    /\ stack[r] = << >>
    /\ \E k \in 1..Len(log[r]) : log[r][k] = << "done", "save-meta" >> =>
          Holds(SavedPost(r).meta, pick(editedPostMeta, POST_META_WHITELIST))

\* C2: when a step of a qualifying request fails, the request is aborted:
\* next() is not called for it, no step is started or tried again, and what
\* the server stored before stays as it is.
C2_FailureAborts ==
    /\ [](\A r \in Calls : StepFailed(r) => AbortedCleanly(r))
    /\ [][\A r \in Calls :
            /\ status[r] = "pending" /\ status'[r] = "rejected" => server' = server
            /\ status[r] = "rejected" =>
                  UNCHANGED << status, stack, server, netLog, log, forwarded >>]_vars

C2_Witness ==
    /\ StepFailed(1)
    /\ LastEvent(1) = << "fail", "save-html" >>
    /\ "is_public" \in DOMAIN SavedPost(1).meta

\* C3 as stated: the allow-listed part of the meta of the request is saved by
\* one request of its own and the other keys are stripped from the request
\* that is forwarded.
C3_AsStated ==
    \A r \in Calls :
        /\ Qualifying(received[r]) /\ Count(forwarded, r) = 1
        /\ Has(received[r].data, "meta")
        => /\ DOMAIN netLog[r][1].data.meta =
                (DOMAIN received[r].data.meta) \cap POST_META_WHITELIST
           /\ (DOMAIN ForwardedOptions(r).data.meta)
                \cap ((DOMAIN received[r].data.meta) \ POST_META_WHITELIST) = {}

SaveMetaCalls(r) ==
    { k \in 1..(Len(netLog[r]) - 1) : Kind(netLog[r][k], 2) = "save-meta" }

\* C3, amended: before a qualifying request is forwarded, the allow-listed
\* part of the meta edited in the editor is saved by one request of its own,
\* the first; the allow-listed keys and the key of the email HTML are stripped
\* from the meta of the request that is forwarded, and its other keys stay.
C3_MetaPartition ==
    \A r \in Calls :
        Qualifying(received[r]) /\ Count(forwarded, r) = 1 =>
            /\ SaveMetaCalls(r) = { 1 }
            /\ DOMAIN netLog[r][1].data = { "meta" }
            /\ DOMAIN netLog[r][1].data.meta =
                  (DOMAIN editedPostMeta) \cap POST_META_WHITELIST
            /\ \A k \in DOMAIN netLog[r][1].data.meta :
                  netLog[r][1].data.meta[k] = editedPostMeta[k]
            /\ Has(received[r].data, "meta") =>
                  /\ DOMAIN ForwardedOptions(r).data.meta =
                        (DOMAIN received[r].data.meta)
                            \ (POST_META_WHITELIST \cup { emailHTMLMetaName })
                  /\ \A k \in DOMAIN ForwardedOptions(r).data.meta :
                        ForwardedOptions(r).data.meta[k] = received[r].data.meta[k]

C3_Witness ==
    /\ Qualifying(received[1]) /\ Count(forwarded, 1) = 1
    /\ Has(received[1].data, "meta")
    /\ DOMAIN received[1].data.meta = SampleMetaKeys
    /\ DOMAIN netLog[1][1].data.meta = { "is_public", "custom_css" }

Settled(r) == status[r] \in { "resolved", "rejected" }

LoadCount(r) == Cardinality({ k \in 1..Len(log[r]) : log[r][k][1] = "load" })

\* C4: a request that fails one of the filters is forwarded once, as it was
\* received, and the middleware makes no request of its own for it, loads no
\* image and writes no meta.
C4_PassedUntouched ==
    \A r \in Calls :
        ~Qualifying(received[r]) =>
            /\ Settled(r) => Count(forwarded, r) = 1
            /\ Count(forwarded, r) <= 1
            /\ Len(netLog[r]) <= 1
            /\ \A k \in 1..Len(netLog[r]) : netLog[r][k] = received[r]
            /\ LoadCount(r) = 0
            /\ Count(forwarded, r) = 0 => server = EmptyObject

\* The same of the requests that have a path.
C4_PassedUntouchedWithPath ==
    \A r \in Calls :
        ~Qualifying(received[r]) /\ Has(received[r], "path") =>
            /\ Settled(r) => Count(forwarded, r) = 1
            /\ Count(forwarded, r) <= 1
            /\ Len(netLog[r]) <= 1
            /\ \A k \in 1..Len(netLog[r]) : netLog[r][k] = received[r]
            /\ LoadCount(r) = 0
            /\ Count(forwarded, r) = 0 => server = EmptyObject

\* fixImagesWidth has returned in the invocation of the request of the editor.
WidthsFixed(r) ==
    /\ Qualifying(received[r])
    /\ Depth(r) > 0
    /\ stack[r][1].pc \in { "awaitHtml", "sent", "processed", "done" }

\* C5: once fixImagesWidth has returned, an image that had no width, or an
\* empty one, has the width of the image loaded from its src, and an image
\* that had a width has kept it and was not loaded.
C5_WidthBackfill ==
    \A r \in Calls :
        WidthsFixed(r) =>
            LET before == stack[r][1].mjml.images
                after == stack[r][1].template.images
            IN  /\ Len(after) = Len(before)
                /\ \A k \in 1..Len(before) :
                      /\ after[k].src = before[k].src
                      /\ IF ~Has(before[k], "width") \/ before[k].width = ""
                         THEN /\ Has(after[k], "width")
                              /\ after[k].width = ToString(NaturalWidth(before[k].src))
                              /\ Count(log[r], << "load", ToString(k) >>) = 1
                         ELSE /\ after[k] = before[k]
                              /\ Count(log[r], << "load", ToString(k) >>) = 0

C5_Witness ==
    /\ WidthsFixed(1)
    /\ stack[1][1].mjml.images = << [ src |-> "b", width |-> "" ],
                                    [ src |-> "a", width |-> "50" ] >>
    /\ stack[1][1].template.images[1].width = "600"

\* The requests the middleware sent and the answers it got, in order.
Traffic(r) == SelectSeq(log[r], LAMBDA event : event[1] \in { "send", "done" })

\* C6 as stated: a qualifying request is forwarded after two requests of the
\* middleware's own.
C6_AsStated ==
    \A r \in Calls :
        Qualifying(received[r]) /\ Count(forwarded, r) = 1 => Len(netLog[r]) - 1 = 2

\* C6, amended: a qualifying request is forwarded after three requests of the
\* middleware's own, each sent after the one before it was answered: the save
\* of the post meta, the conversion request and the save of the email HTML.
C6_ThreeCalls ==
    \A r \in Calls :
        Qualifying(received[r]) /\ Count(forwarded, r) = 1 =>
            /\ Len(netLog[r]) - 1 = 3
            /\ Kind(netLog[r][1], 2) = "save-meta"
            /\ Kind(netLog[r][2], 2) = "post-mjml"
            /\ Kind(netLog[r][3], 2) = "save-html"
            /\ SubSeq(Traffic(r), 1, 7) =
                  << << "send", "save-meta" >>, << "done", "save-meta" >>,
                     << "send", "post-mjml" >>, << "done", "post-mjml" >>,
                     << "send", "save-html" >>, << "done", "save-html" >>,
                     << "send", "request" >> >>

C6_Witness ==
    /\ Qualifying(received[1]) /\ Count(forwarded, 1) = 1
    /\ status[1] = "resolved"
    /\ Len(netLog[1]) = 4

\* The external calls of a call that are under way: the request of
\* invocation d, as << d, 0 >>, and the load of its image k, as << d, k >>.
Outstanding(r) ==
    { << d, 0 >> : d \in { e \in 1..Depth(r) : stack[r][e].pc \in { "sent", "processed" } } }
    \cup UNION { { << d, k >> : k \in stack[r][d].loads } : d \in 1..Depth(r) }

\* C7: at most one external call of a request is under way at any moment, and
\* the images are loaded one at a time, in document order, a load starting
\* after the one before it is complete.
C7_NoFanOut ==
    \A r \in Calls :
        /\ Cardinality(Outstanding(r)) <= 1
        /\ \A p, q \in 1..Len(log[r]) :
              p < q /\ log[r][p][1] = "load" /\ log[r][q][1] = "load" =>
                  /\ \E a, b \in 1..MaxImages :
                        /\ a < b
                        /\ log[r][p][2] = ToString(a)
                        /\ log[r][q][2] = ToString(b)
                  /\ \E m \in (p + 1)..(q - 1) : log[r][m] = << "loaded", log[r][p][2] >>

C7_Witness ==
    /\ Qualifying(received[1])
    /\ Outstanding(1) = { << 1, 2 >> }
    /\ \E k \in 1..Len(log[1]) : log[1][k] = << "loaded", "1" >>

\* A request of the middleware's own is under way in its own invocation, and
\* that invocation passes it on: it starts nothing itself.
NestedPassesOn(r) ==
    Depth(r) > 1 =>
        /\ Depth(r) = 2
        /\ Top(r).pc \in { "start", "sent", "processed" }
        /\ ~(Has(Top(r).opts.data, "content") /\ Has(Top(r).opts.data, "id"))
        /\ Top(r).pc # "start" => ForwardedOptions(r) = Top(r).opts

\* C8: the requests the middleware makes itself go through the middleware
\* again and are passed on by the filter on content and id, so none of them
\* starts requests of its own; a call makes no more requests than the three
\* of the middleware and its own and loads no image twice, and it ends
\* forwarded or failed.
C8_ReentrancyEnds ==
    /\ [](\A r \in Calls :
             /\ NestedPassesOn(r)
             /\ Len(netLog[r]) <= 4
             /\ LoadCount(r) <= MaxImages)
    /\ \A r \in Reqs :
          status[r] = "pending" ~> (Count(forwarded, r) = 1 \/ status[r] = "rejected")

C8_Witness ==
    /\ Depth(1) = 2
    /\ Top(1).pc = "processed"
    /\ TopKind(1) = "post-mjml"
    /\ Top(1).opts.data.content = "c1"

\* C9: the request a qualifying call forwards differs from the one received
\* in data.meta alone: method, path, id, title and content are the same, the
\* meta has lost the allow-listed keys and the key of the email HTML and kept
\* its other entries, and a request without meta is forwarded without meta.
C9_OnlyMetaChanges ==
    \A r \in Calls :
        Qualifying(received[r]) /\ Count(forwarded, r) = 1 =>
            LET got == received[r]
                sent == ForwardedOptions(r)
            IN  /\ DOMAIN sent = DOMAIN got
                /\ sent.method = got.method
                /\ sent.path = got.path
                /\ DOMAIN sent.data = DOMAIN got.data
                /\ \A f \in (DOMAIN got.data) \ { "meta" } : sent.data[f] = got.data[f]
                /\ Has(got.data, "meta") =>
                      /\ (DOMAIN sent.data.meta) \cap POST_META_WHITELIST = {}
                      /\ emailHTMLMetaName \notin DOMAIN sent.data.meta
                      /\ \A k \in DOMAIN got.data.meta :
                            k \notin POST_META_WHITELIST /\ k # emailHTMLMetaName =>
                                k \in DOMAIN sent.data.meta
                      /\ \A k \in DOMAIN sent.data.meta :
                            k \in DOMAIN got.data.meta
                            /\ sent.data.meta[k] = got.data.meta[k]

C9_Witness ==
    /\ Qualifying(received[1]) /\ Count(forwarded, 1) = 1
    /\ Has(received[1].data, "title")
    /\ Has(received[1].data, "meta")
    /\ DOMAIN received[1].data.meta = SampleMetaKeys
    /\ ForwardedOptions(1).data.meta = [k \in { "other_key" } |-> << "r" >>]

\* The email HTML the server holds for the post of the two updates.
SavedHtml == Stored(server, PostPath(NewsletterType, 7)).meta[emailHTMLMetaName]

\* C10: when two updates of a post are under way at once and both are
\* forwarded, the email HTML the server holds is the one made of the content
\* of the update forwarded last.
C10_HtmlOfLastForwarded ==
    Count(forwarded, 1) = 1 /\ Count(forwarded, 2) = 1 =>
        SavedHtml[4] = received[forwarded[Len(forwarded)]].data.content

====
